---- MODULE Spec2Model ----
(***************************************************************************)
(* Employee creation and listing of the go-gin-template backend:           *)
(*   repository/employee/employee_repository.go  (EmployeeRepository)      *)
(*   handler/employee/employee_handler.go        (handler, request setup)  *)
(*                                                                         *)
(* Strings are tuples of one-character strings, so that strings.ToLower,   *)
(* strconv.Atoi and the ILIKE prefix / substring matches are computed.     *)
(* Two specifications:                                                     *)
(*   Spec      concurrent create-employee requests against the storage;    *)
(*   SpecList  list requests (handler.GetAll -> EmployeeRepository.GetAll) *)
(*             over every storage content within the bounds.               *)
(***************************************************************************)
EXTENDS Integers, Sequences, FiniteSets, TLC

VARIABLES
    employees,  \* table employees, committed rows in storage order
    alive,      \* the server process is running
    \* ---- list request (handler.GetAll) ----
    pc,         \* position of the list handler
    req,        \* the HTTP request being served (identity in context, URL query)
    input,      \* *dto.GetEmployeesRequest filled by setGetEmployeeRequest
    early,      \* setGetEmployeeRequest already wrote a 400 response
    built,      \* query and args assembled by EmployeeRepository.GetAll
    result,     \* ([]dto.EmployeePayload, error) returned by EmployeeRepository.GetAll
    resp,       \* status written by the handler, "" while none
    \* ---- create requests (handler.Create), one per worker ----
    cpc,        \* position of each worker
    call,       \* the create call a worker is serving, with its history:
                \* base, the committed rows when it started; inserted, the rows it added
    tx,         \* rows written on the worker's open transaction, not yet committed
    err,        \* error returned to handler.Create
    nextCall,   \* number of create calls started so far
    origin      \* history: for each committed row, who inserted it and how

vars == <<employees, alive, pc, req, input, early, built, result, resp,
          cpc, call, tx, err, nextCall, origin>>

listVars == <<pc, req, input, early, built, result, resp>>
createVars == <<cpc, call, tx, err, nextCall, origin>>

-----------------------------------------------------------------------------
(* Bounds *)

\* longest seeded employees table of SpecList
MaxRows == 2
\* create calls served in one behaviour of Spec
MaxCalls == 2

-----------------------------------------------------------------------------
(* Strings *)

EmptyStr == <<>>

\* SQL NULL, as produced by a LEFT JOIN without a matching row
Null == <<"NULL">>

Min(a, b) == IF a < b THEN a ELSE b

LowerChar(c) ==
    CASE c = "A" -> "a"
      [] c = "N" -> "n"
      [] c = "D" -> "d"
      [] OTHER -> c

\* strings.ToLower
ToLower(s) == [i \in 1..Len(s) |-> LowerChar(s[i])]

IsDigit(c) == c \in {"0", "1", "2", "3", "4", "5", "6", "7", "8", "9"}

DigitVal(c) ==
    CASE c = "0" -> 0 [] c = "1" -> 1 [] c = "2" -> 2 [] c = "3" -> 3
      [] c = "4" -> 4 [] c = "5" -> 5 [] c = "6" -> 6 [] c = "7" -> 7
      [] c = "8" -> 8 [] OTHER -> 9

RECURSIVE DigitsVal(_)
DigitsVal(s) ==
    IF s = <<>> THEN 0
    ELSE DigitsVal(SubSeq(s, 1, Len(s) - 1)) * 10 + DigitVal(s[Len(s)])

\* strconv.Atoi: [ok, n]; an optional sign followed by at least one digit
Atoi(s) ==
    LET signed == Len(s) > 0 /\ s[1] \in {"+", "-"}
        digits == IF signed THEN SubSeq(s, 2, Len(s)) ELSE s
    IN  IF digits = <<>> \/ \E i \in 1..Len(digits) : ~IsDigit(digits[i])
        THEN [ok |-> FALSE, n |-> 0]
        ELSE [ok |-> TRUE,
              n  |-> IF signed /\ s[1] = "-" THEN 0 - DigitsVal(digits)
                     ELSE DigitsVal(digits)]

IsPrefix(p, s) == Len(p) <= Len(s) /\ SubSeq(s, 1, Len(p)) = p

IsSubstring(p, s) ==
    \E i \in 0..(Len(s) - Len(p)) : SubSeq(s, i + 1, i + Len(p)) = p

-----------------------------------------------------------------------------
(* Storage: tables manager and department (never written by this code) *)

M1 == <<"m", "1">>
M2 == <<"m", "2">>
D1 == <<"d", "1">>
D2 == <<"d", "2">>
D3 == <<"d", "3">>
D4 == <<"d", "4">>

Manager == {M1, M2}

\* D1 and D3 belong to M1, D2 to M2, D4 has no owning manager
Department ==
    { [departmentId |-> D1, managerId |-> M1],
      [departmentId |-> D2, managerId |-> M2],
      [departmentId |-> D3, managerId |-> M1],
      [departmentId |-> D4, managerId |-> Null] }

\* SQL equality: never true on NULL
SqlEq(a, b) == a # Null /\ b # Null /\ a = b

\* the department row of a department id owned by a manager, if any
OwnedBy(departmentId, managerId) ==
    \E d \in Department :
        SqlEq(d.departmentId, departmentId) /\ SqlEq(d.managerId, managerId)

-----------------------------------------------------------------------------
(* EmployeeRepository.GetAll: the dynamic query *)

\* package dto (pagination defaults used by setGetEmployeeRequest)
DefaultLimit == 5
DefaultOffset == 0

\* one rendered fragment of the statement: conj col op $ph
Clause(conj, col, op, ph) == [conj |-> conj, col |-> col, op |-> op, ph |-> ph]

\* conditions := "WHERE m.managerId = $1"; argIndex := 2; args = [input.ManagerID]
GetAllBase(in) ==
    [conditions |-> << Clause("WHERE", "m.managerId", "=", 1) >>,
     argIndex   |-> 2,
     args       |-> << in.ManagerID >>]

AppendIdentityNumber(b, in) ==
    IF in.IdentityNumber # EmptyStr
    THEN [conditions |-> Append(b.conditions,
                            Clause("AND", "LOWER(e.identityNumber)", "ILIKE $ || '%'", b.argIndex)),
          argIndex   |-> b.argIndex + 1,
          args       |-> Append(b.args, in.IdentityNumber)]
    ELSE b

AppendName(b, in) ==
    IF in.Name # EmptyStr
    THEN [conditions |-> Append(b.conditions,
                            Clause("AND", "e.name", "ILIKE '%' || $ || '%'", b.argIndex)),
          argIndex   |-> b.argIndex + 1,
          args       |-> Append(b.args, in.Name)]
    ELSE b

\* variant: the gender predicate appended whether or not the field is set
AppendGenderAlways(b, in) ==
    [conditions |-> Append(b.conditions, Clause("AND", "e.gender", "=", b.argIndex)),
     argIndex   |-> b.argIndex + 1,
     args       |-> Append(b.args, in.Gender)]

AppendGender(b, in) ==
    IF in.Gender # EmptyStr
    THEN [conditions |-> Append(b.conditions, Clause("AND", "e.gender", "=", b.argIndex)),
          argIndex   |-> b.argIndex + 1,
          args       |-> Append(b.args, in.Gender)]
    ELSE b

AppendDepartmentID(b, in) ==
    IF in.DepartmentID # EmptyStr
    THEN [conditions |-> Append(b.conditions, Clause("AND", "e.departmentId", "=", b.argIndex)),
          argIndex   |-> b.argIndex + 1,
          args       |-> Append(b.args, in.DepartmentID)]
    ELSE b

\* variant: argIndex is not advanced after LIMIT
AppendLimitNoAdvance(b, in) ==
    [conditions |-> Append(b.conditions, Clause("LIMIT", "", "", b.argIndex)),
     argIndex   |-> b.argIndex,
     args       |-> Append(b.args, in.Limit)]

\* args = append(args, input.Limit); " LIMIT $%d"; argIndex++
AppendLimit(b, in) ==
    [conditions |-> Append(b.conditions, Clause("LIMIT", "", "", b.argIndex)),
     argIndex   |-> b.argIndex + 1,
     args       |-> Append(b.args, in.Limit)]

\* variant: input.Limit appended a second time where input.Offset belongs
AppendOffsetBindsLimit(b, in) ==
    [conditions |-> Append(b.conditions, Clause("OFFSET", "", "", b.argIndex)),
     argIndex   |-> b.argIndex,
     args       |-> Append(b.args, in.Limit)]

\* args = append(args, input.Offset); " OFFSET $%d;" (argIndex is not advanced)
AppendOffset(b, in) ==
    [conditions |-> Append(b.conditions, Clause("OFFSET", "", "", b.argIndex)),
     argIndex   |-> b.argIndex,
     args       |-> Append(b.args, in.Offset)]

\* the statement and its positional arguments as GetAll hands them to r.db.Query
GetAllBuild(in) ==
    AppendOffset(
      AppendLimit(
        AppendDepartmentID(
          AppendGender(
            AppendName(
              AppendIdentityNumber(GetAllBase(in), in), in), in), in), in), in)

\* the rows of department an employee joins, a row of NULLs when there is none
JoinDepartment(e) ==
    LET ds == { d \in Department : SqlEq(e.departmentId, d.departmentId) }
    IN  IF ds = {} THEN { [departmentId |-> Null, managerId |-> Null] } ELSE ds

\* variant: the manager join written ON d.managerId = d.managerId
JoinRowsSelfCompare(e) ==
    UNION { LET ms == { m \in Manager : SqlEq(d.managerId, d.managerId) }
            IN  IF ms = {}
                THEN { [e |-> e, dManagerId |-> d.managerId, mManagerId |-> Null] }
                ELSE { [e |-> e, dManagerId |-> d.managerId, mManagerId |-> m] : m \in ms }
            : d \in JoinDepartment(e) }

\* FROM employees AS e LEFT JOIN department d ON e.departmentId = d.departmentId
\*                     LEFT JOIN manager m ON d.managerId = m.managerId
\* the joined rows of one employee
JoinRows(e) ==
    UNION { LET ms == { m \in Manager : SqlEq(d.managerId, m) }
            IN  IF ms = {}
                THEN { [e |-> e, dManagerId |-> d.managerId, mManagerId |-> Null] }
                ELSE { [e |-> e, dManagerId |-> d.managerId, mManagerId |-> m] : m \in ms }
            : d \in JoinDepartment(e) }

Column(jr, col) ==
    CASE col = "m.managerId" -> jr.mManagerId
      [] col = "LOWER(e.identityNumber)" -> ToLower(jr.e.identityNumber)
      [] col = "e.name" -> jr.e.name
      [] col = "e.gender" -> jr.e.gender
      [] col = "e.departmentId" -> jr.e.departmentId

\* a WHERE / AND fragment on a joined row, its placeholder bound by position
Holds(c, jr, args) ==
    LET v == Column(jr, c.col)
        a == args[c.ph]
    IN  CASE c.op = "=" -> SqlEq(v, a)
          [] c.op = "ILIKE $ || '%'" -> v # Null /\ IsPrefix(ToLower(a), ToLower(v))
          [] c.op = "ILIKE '%' || $ || '%'" -> v # Null /\ IsSubstring(ToLower(a), ToLower(v))

\* rows.Scan into dto.EmployeePayload
Scan(e) ==
    [IdentityNumber   |-> e.identityNumber,
     Name             |-> e.name,
     EmployeeImageUri |-> e.employeeImageUri,
     Gender           |-> e.gender,
     DepartmentID     |-> e.departmentId]

\* the rows the storage returns for the built statement, in storage order:
\* one per joined row that passes every WHERE / AND fragment, cut by OFFSET, LIMIT
RunQuery(b, emps) ==
    LET IsWhere(c) == c.conj \in {"WHERE", "AND"}
        where == SelectSeq(b.conditions, IsWhere)
        Passing(e) == { jr \in JoinRows(e) :
                          \A i \in 1..Len(where) : Holds(where[i], jr, b.args) }
        matched[i \in 0..Len(emps)] ==
            IF i = 0 THEN <<>>
            ELSE matched[i - 1] \o [k \in 1..Cardinality(Passing(emps[i])) |-> emps[i]]
        all == matched[Len(emps)]
        lim == b.args[b.conditions[CHOOSE i \in 1..Len(b.conditions) : b.conditions[i].conj = "LIMIT"].ph]
        off == b.args[b.conditions[CHOOSE i \in 1..Len(b.conditions) : b.conditions[i].conj = "OFFSET"].ph]
        win == SubSeq(all, off + 1, Min(Len(all), off + lim))
    IN  [i \in 1..Len(win) |-> Scan(win[i])]

-----------------------------------------------------------------------------
(* handler.GetAll and setGetEmployeeRequest *)

Male == <<"m", "a", "l", "e">>
Female == <<"f", "e", "m", "a", "l", "e">>
Uri == <<"u">>

\* values of the URL query parameters limit and offset
PageParams ==
    { <<>>, <<"a">>, <<"-", "1">>, <<"0">>, <<"2">>, <<"+", "1">> }

\* list requests: user is the identity the middleware left in the context
\* (EmptyStr: none, GetIdUserFromContext fails), the rest is the URL query
Requests ==
    [ user           : {M1, M2, EmptyStr},
      gender         : {EmptyStr, Female},
      identityNumber : {EmptyStr, <<"1">>},
      name           : {EmptyStr, <<"A", "N">>},
      departmentId   : {EmptyStr, <<"D", "1">>},
      limit          : PageParams,
      offset         : PageParams ]

\* new(dto.GetEmployeesRequest): Go zero values
ZeroInput ==
    [ManagerID |-> EmptyStr, Gender |-> EmptyStr, IdentityNumber |-> EmptyStr,
     Name |-> EmptyStr, DepartmentID |-> EmptyStr, Limit |-> 0, Offset |-> 0]

\* limit / offset of setGetEmployeeRequest: Atoi, default on error or negative
PageValue(param, default) ==
    LET a == Atoi(param)
    IN  IF ~a.ok \/ a.n < 0 THEN default ELSE a.n

\* setGetEmployeeRequest(ctx, input): [input, wrote400]
\* without an identity it writes 400 and returns, leaving input untouched
setGetEmployeeRequest(r, in) ==
    IF r.user = EmptyStr
    THEN [input |-> in, wrote |-> TRUE]
    ELSE [input |->
            [ManagerID      |-> r.user,
             Gender         |-> ToLower(r.gender),
             IdentityNumber |-> ToLower(r.identityNumber),
             Name           |-> ToLower(r.name),
             DepartmentID   |-> ToLower(r.departmentId),
             Limit          |-> PageValue(r.limit, DefaultLimit),
             Offset         |-> PageValue(r.offset, DefaultOffset)],
          wrote |-> FALSE]

NoRequest == [user |-> EmptyStr]
NoQuery == [conditions |-> <<>>, argIndex |-> 0, args |-> <<>>]
NoResult == [employees |-> <<>>, err |-> "pending"]

\* handler.GetAll up to the validation: input := new(...); setGetEmployeeRequest
HandlerGetAllSetup ==
    /\ alive /\ pc = "idle"
    /\ \E r \in Requests :
         LET s == setGetEmployeeRequest(r, ZeroInput)
         IN  /\ req' = r
             /\ input' = s.input
             /\ early' = s.wrote
             /\ resp' = IF s.wrote THEN "400" ELSE ""
    /\ pc' = "validate"
    /\ UNCHANGED <<employees, alive, built, result>>
    /\ UNCHANGED createVars

\* validation.ValidateEmployeeGet rejects the input: the handler answers 400
\* (a status already written stays: gin keeps the first one)
HandlerGetAllInvalid ==
    /\ alive /\ pc = "validate"
    /\ resp' = IF resp = "" THEN "400" ELSE resp
    /\ pc' = "done"
    /\ UNCHANGED <<employees, alive, req, input, early, built, result>>
    /\ UNCHANGED createVars

\* validation passes: h.service.GetAll(ctx, *input) is invoked
HandlerGetAllValid ==
    /\ alive /\ pc = "validate"
    /\ pc' = "service"
    /\ UNCHANGED <<employees, alive, req, input, early, built, result, resp>>
    /\ UNCHANGED createVars

\* EmployeeRepository.GetAll assembles query and args
RepoGetAllBuild ==
    /\ alive /\ pc = "service"
    /\ built' = GetAllBuild(input)
    /\ pc' = "query"
    /\ UNCHANGED <<employees, alive, req, input, early, result, resp>>
    /\ UNCHANGED createVars

\* r.db.Query succeeds and every row scans: the rows go back to the handler
RepoGetAllRows ==
    /\ alive /\ pc = "query"
    /\ result' = [employees |-> RunQuery(built, employees), err |-> "nil"]
    /\ resp' = IF resp = "" THEN "200" ELSE resp
    /\ pc' = "done"
    /\ UNCHANGED <<employees, alive, req, input, early, built>>
    /\ UNCHANGED createVars

\* r.db.Query fails: log.Fatalf prints and exits the process (os.Exit(1));
\* the return behind it is never reached
RepoGetAllQueryFails ==
    /\ alive /\ pc = "query"
    /\ alive' = FALSE
    /\ pc' = "exited"
    /\ UNCHANGED <<employees, req, input, early, built, result, resp>>
    /\ UNCHANGED createVars

\* rows.Scan fails on a returned row: (nil, err) goes back, the handler answers
\* with the error's status
RepoGetAllScanFails ==
    /\ alive /\ pc = "query"
    /\ RunQuery(built, employees) # <<>>
    /\ result' = [employees |-> <<>>, err |-> "ScanError"]
    /\ resp' = IF resp = "" THEN "error" ELSE resp
    /\ pc' = "done"
    /\ UNCHANGED <<employees, alive, req, input, early, built>>
    /\ UNCHANGED createVars

\* the response is out; the next request starts from fresh locals
HandlerGetAllReturn ==
    /\ alive /\ pc = "done"
    /\ pc' = "idle"
    /\ req' = NoRequest
    /\ input' = ZeroInput
    /\ early' = FALSE
    /\ built' = NoQuery
    /\ result' = NoResult
    /\ resp' = ""
    /\ UNCHANGED <<employees, alive>>
    /\ UNCHANGED createVars

-----------------------------------------------------------------------------
(* EmployeeRepository: the statements of the create path *)

\* variant: the ownership query without its managerId condition
IsDepartmentKnown(departmentId, managerId, fault) ==
    LET rows == Cardinality({ d \in Department : SqlEq(d.departmentId, departmentId) })
    IN  IF fault THEN "ExecError"
        ELSE IF rows < 1 THEN "ErrInvalidDepartmentId"
        ELSE "nil"

\* IsDepartmentOwnedByManager: SELECT 1 FROM department WHERE departmentId = $1
\* AND managerId = $2; fault: Exec returns an error
IsDepartmentOwnedByManager(departmentId, managerId, fault) ==
    LET rows == Cardinality({ d \in Department :
                    SqlEq(d.departmentId, departmentId) /\ SqlEq(d.managerId, managerId) })
    IN  IF fault THEN "ExecError"
        ELSE IF rows < 1 THEN "ErrInvalidDepartmentId"
        ELSE "nil"

\* IsIdentityNumberAvailable: SELECT 1 FROM employees e JOIN department d ON
\* e.departmentId = d.departmentId WHERE identityNumber = $1 AND managerId = $2,
\* executed on the pool r.db: it reads the committed rows
IsIdentityNumberAvailable(emps, identityNumber, managerId, fault) ==
    LET rows == Cardinality({ i \in 1..Len(emps) :
                    /\ SqlEq(emps[i].identityNumber, identityNumber)
                    /\ \E d \in Department :
                         /\ SqlEq(emps[i].departmentId, d.departmentId)
                         /\ SqlEq(d.managerId, managerId) })
    IN  IF fault THEN "ExecError"
        ELSE IF rows > 0 THEN "ErrConflictIdentityNumber"
        ELSE "nil"

\* the employees row of a payload
Row(in) ==
    [identityNumber   |-> in.IdentityNumber,
     name             |-> in.Name,
     employeeImageUri |-> in.EmployeeImageUri,
     gender           |-> in.Gender,
     departmentId     |-> in.DepartmentID]

\* Insert: INSERT INTO employees (...) VALUES ($1..$5) on the transaction:
\* [err, rows written on the transaction]; managerId is not used
Insert(pending, in, managerId, fault) ==
    LET rows == 1
    IN  IF fault THEN [err |-> "ExecError", tx |-> pending]
        ELSE IF rows < 1 THEN [err |-> "ErrInvalidDepartmentId", tx |-> pending]
        ELSE [err |-> "nil", tx |-> Append(pending, Row(in))]

\* variant: the insert not conditioned on valid_department
CreateUnconditional(emps, in, managerId, fault) ==
    IF fault THEN [err |-> "ExecError", employees |-> emps]
    ELSE [err |-> "nil", employees |-> Append(emps, Row(in))]

\* Create: WITH valid_department AS (SELECT 1 FROM department WHERE departmentId
\* = $5 AND managerId = $6) INSERT INTO employees (...) SELECT $1..$5 FROM
\* valid_department WHERE EXISTS (SELECT 1 FROM valid_department), on the pool:
\* [err, employees after the statement]
Create(emps, in, managerId, fault) ==
    LET validDepartment == { d \in Department :
            SqlEq(d.departmentId, in.DepartmentID) /\ SqlEq(d.managerId, managerId) }
        rows == IF validDepartment # {} THEN Cardinality(validDepartment) ELSE 0
    IN  IF fault THEN [err |-> "ExecError", employees |-> emps]
        ELSE IF rows < 1 THEN [err |-> "ErrInvalidDepartmentId", employees |-> emps]
        ELSE [err |-> "nil", employees |-> emps \o [i \in 1..rows |-> Row(in)]]

-----------------------------------------------------------------------------
(* handler.Create and the service behind it *)

Workers == {1, 2}

NoCall == [via |-> "none"]

\* bodies of create requests that pass binding and shape validation
Payloads ==
    [ IdentityNumber   : {<<"1">>, <<"2">>},
      Name             : {<<"a", "n", "n">>},
      EmployeeImageUri : {Uri},
      Gender           : {Female},
      DepartmentID     : {D1, D2, D3} ]

\* handler.Create: a request arrives without an identity in its context; the
\* handler answers 401 and returns
HandlerCreateUnauthorized(w) ==
    /\ alive /\ cpc[w] = "idle" /\ nextCall < MaxCalls
    /\ nextCall' = nextCall + 1
    /\ call' = [call EXCEPT ![w] = [via |-> "rejected"]]
    /\ err' = [err EXCEPT ![w] = "ErrUnauthorized"]
    /\ cpc' = [cpc EXCEPT ![w] = "done"]
    /\ UNCHANGED <<employees, alive, tx, origin>>
    /\ UNCHANGED listVars

\* handler.Create: the body does not bind or fails ValidateEmployeeCreate; the
\* handler answers 400 and returns
HandlerCreateBadRequest(w) ==
    /\ alive /\ cpc[w] = "idle" /\ nextCall < MaxCalls
    /\ nextCall' = nextCall + 1
    /\ call' = [call EXCEPT ![w] = [via |-> "rejected"]]
    /\ err' = [err EXCEPT ![w] = "ErrBadRequest"]
    /\ cpc' = [cpc EXCEPT ![w] = "done"]
    /\ UNCHANGED <<employees, alive, tx, origin>>
    /\ UNCHANGED listVars

\* handler.Create: identity, binding and validation pass and
\* h.service.Create(ctx, *input, managerID) is invoked. via is the strategy of
\* the service: "tx" (ownership check, availability check and Insert on one
\* transaction) or "single" (EmployeeRepository.Create)
HandlerCreateService(w) ==
    /\ alive /\ cpc[w] = "idle" /\ nextCall < MaxCalls
    /\ \E m \in Manager, in \in Payloads, via \in {"tx", "single"} :
         call' = [call EXCEPT ![w] =
                    [managerId |-> m, input |-> in, via |-> via,
                     base |-> Len(employees), inserted |-> 0]]
    /\ nextCall' = nextCall + 1
    /\ err' = [err EXCEPT ![w] = "pending"]
    /\ cpc' = [cpc EXCEPT ![w] = "service"]
    /\ UNCHANGED <<employees, alive, tx, origin>>
    /\ UNCHANGED listVars

\* history of a row: the acting manager and the strategy of the call writing it
Origin(w) == [managerId |-> call[w].managerId, via |-> call[w].via]

\* the service ends with error e: an open transaction is rolled back
Fail(w, e) ==
    /\ err' = [err EXCEPT ![w] = e]
    /\ tx' = [tx EXCEPT ![w] = <<>>]
    /\ cpc' = [cpc EXCEPT ![w] = "done"]
    /\ UNCHANGED <<employees, origin>>

\* strategy "single": one call of EmployeeRepository.Create
ServiceCreateSingle(w) ==
    /\ alive /\ cpc[w] = "service" /\ call[w].via = "single"
    /\ \E fault \in BOOLEAN :
         LET r == Create(employees, call[w].input, call[w].managerId, fault)
             n == Len(r.employees) - Len(employees)
         IN  /\ employees' = r.employees
             /\ origin' = origin \o [i \in 1..n |-> Origin(w)]
             /\ call' = [call EXCEPT ![w].inserted = n]
             /\ err' = [err EXCEPT ![w] = r.err]
    /\ cpc' = [cpc EXCEPT ![w] = "done"]
    /\ UNCHANGED <<alive, tx, nextCall>>
    /\ UNCHANGED listVars

\* strategy "tx": the transaction is opened
ServiceBegin(w) ==
    /\ alive /\ cpc[w] = "service" /\ call[w].via = "tx"
    /\ tx' = [tx EXCEPT ![w] = <<>>]
    /\ cpc' = [cpc EXCEPT ![w] = "ownership"]
    /\ UNCHANGED <<employees, alive, call, err, nextCall, origin>>
    /\ UNCHANGED listVars

\* strategy "tx": IsDepartmentOwnedByManager on the transaction
ServiceCheckOwnership(w) ==
    /\ alive /\ cpc[w] = "ownership"
    /\ \E fault \in BOOLEAN :
         LET e == IsDepartmentOwnedByManager(call[w].input.DepartmentID,
                                             call[w].managerId, fault)
         IN  IF e = "nil"
             THEN /\ cpc' = [cpc EXCEPT ![w] = "identity"]
                  /\ UNCHANGED <<employees, tx, err, origin>>
             ELSE Fail(w, e)
    /\ UNCHANGED <<alive, call, nextCall>>
    /\ UNCHANGED listVars

\* strategy "tx": IsIdentityNumberAvailable (it reads through the pool)
ServiceCheckIdentity(w) ==
    /\ alive /\ cpc[w] = "identity"
    /\ \E fault \in BOOLEAN :
         LET e == IsIdentityNumberAvailable(employees, call[w].input.IdentityNumber,
                                            call[w].managerId, fault)
         IN  IF e = "nil"
             THEN /\ cpc' = [cpc EXCEPT ![w] = "insert"]
                  /\ UNCHANGED <<employees, tx, err, origin>>
             ELSE Fail(w, e)
    /\ UNCHANGED <<alive, call, nextCall>>
    /\ UNCHANGED listVars

\* strategy "tx": Insert on the transaction
ServiceInsert(w) ==
    /\ alive /\ cpc[w] = "insert"
    /\ \E fault \in BOOLEAN :
         LET r == Insert(tx[w], call[w].input, call[w].managerId, fault)
         IN  IF r.err = "nil"
             THEN /\ tx' = [tx EXCEPT ![w] = r.tx]
                  /\ cpc' = [cpc EXCEPT ![w] = "commit"]
                  /\ UNCHANGED <<employees, err, origin>>
             ELSE Fail(w, r.err)
    /\ UNCHANGED <<alive, call, nextCall>>
    /\ UNCHANGED listVars

\* strategy "tx": the transaction commits; its rows become visible
ServiceCommit(w) ==
    /\ alive /\ cpc[w] = "commit"
    /\ employees' = employees \o tx[w]
    /\ origin' = origin \o [i \in 1..Len(tx[w]) |-> Origin(w)]
    /\ call' = [call EXCEPT ![w].inserted = Len(tx[w])]
    /\ tx' = [tx EXCEPT ![w] = <<>>]
    /\ err' = [err EXCEPT ![w] = "nil"]
    /\ cpc' = [cpc EXCEPT ![w] = "done"]
    /\ UNCHANGED <<alive, nextCall>>
    /\ UNCHANGED listVars

\* handler.Create has written its response and returns
HandlerCreateReturn(w) ==
    /\ alive /\ cpc[w] = "done"
    /\ cpc' = [cpc EXCEPT ![w] = "idle"]
    /\ call' = [call EXCEPT ![w] = NoCall]
    /\ err' = [err EXCEPT ![w] = "pending"]
    /\ UNCHANGED <<employees, alive, tx, nextCall, origin>>
    /\ UNCHANGED listVars

\* employees rows the storage may hold when a list request arrives
SeedRows ==
    { [identityNumber |-> <<"1", "2">>, name |-> <<"A", "n", "n">>,
       employeeImageUri |-> Uri, gender |-> Female, departmentId |-> D1],
      [identityNumber |-> <<"2", "1">>, name |-> <<"d", "a", "n">>,
       employeeImageUri |-> Uri, gender |-> Male, departmentId |-> D3],
      [identityNumber |-> <<"1", "2">>, name |-> <<"a", "n", "n">>,
       employeeImageUri |-> Uri, gender |-> Female, departmentId |-> D2],
      [identityNumber |-> <<"1">>, name |-> <<"a", "n">>,
       employeeImageUri |-> Uri, gender |-> Female, departmentId |-> D4] }

Storages == UNION { [1..n -> SeedRows] : n \in 0..MaxRows }

ListIdle ==
    /\ pc = "idle"
    /\ req = NoRequest
    /\ input = ZeroInput
    /\ early = FALSE
    /\ built = NoQuery
    /\ result = NoResult
    /\ resp = ""

CreateIdle ==
    /\ cpc = [w \in Workers |-> "idle"]
    /\ call = [w \in Workers |-> NoCall]
    /\ tx = [w \in Workers |-> <<>>]
    /\ err = [w \in Workers |-> "pending"]
    /\ nextCall = 0
    /\ origin = <<>>

InitList ==
    /\ employees \in Storages
    /\ alive = TRUE
    /\ ListIdle
    /\ CreateIdle

NextList ==
    \/ HandlerGetAllSetup
    \/ HandlerGetAllInvalid
    \/ HandlerGetAllValid
    \/ RepoGetAllBuild
    \/ RepoGetAllRows
    \/ RepoGetAllQueryFails
    \/ RepoGetAllScanFails
    \/ HandlerGetAllReturn

SpecList == InitList /\ [][NextList]_vars

Init ==
    /\ employees = <<>>
    /\ alive = TRUE
    /\ ListIdle
    /\ CreateIdle

Next ==
    \E w \in Workers :
        \/ HandlerCreateUnauthorized(w)
        \/ HandlerCreateBadRequest(w)
        \/ HandlerCreateService(w)
        \/ ServiceCreateSingle(w)
        \/ ServiceBegin(w)
        \/ ServiceCheckOwnership(w)
        \/ ServiceCheckIdentity(w)
        \/ ServiceInsert(w)
        \/ ServiceCommit(w)
        \/ HandlerCreateReturn(w)

Spec == Init /\ [][Next]_vars

-----------------------------------------------------------------------------
(* Properties of the create path, checked under Spec *)

\* worker w has a create call that reached the service and has returned
Returned(w) == cpc[w] = "done" /\ call[w].via \in {"tx", "single"}

\* an employee with the call's identity number stood committed, in a department
\* of the call's manager, when the call started
DuplicateAtStart(w) ==
    \E i \in 1..call[w].base :
        /\ employees[i].identityNumber = call[w].input.IdentityNumber
        /\ OwnedBy(employees[i].departmentId, call[w].managerId)

\* C1: a create call for a department that no department row ties to the acting
\* manager inserts no row (nothing committed by the call, nothing left on its
\* transaction) and, unless the storage statement itself failed, returns
\* ErrInvalidDepartmentId.
C1_UnownedDepartmentRejected ==
    \A w \in Workers :
        (/\ call[w].via \in {"tx", "single"}
         /\ ~OwnedBy(call[w].input.DepartmentID, call[w].managerId))
        => /\ call[w].inserted = 0
           /\ tx[w] = <<>>
           /\ cpc[w] = "done" => err[w] \in {"ErrInvalidDepartmentId", "ExecError"}
           /\ Len(employees) = Len(origin)

\* C1 witness: with rows already stored, EmployeeRepository.Create has returned
\* ErrInvalidDepartmentId for a department of another manager
C1_Witness ==
    \E w \in Workers :
        /\ Returned(w) /\ call[w].via = "single"
        /\ ~OwnedBy(call[w].input.DepartmentID, call[w].managerId)
        /\ err[w] = "ErrInvalidDepartmentId"
        /\ Len(employees) > 0

\* C2: a create call for an owned department whose identity number was already
\* used in the manager's scope when the call started returns
\* ErrConflictIdentityNumber and inserts no row (a failing storage statement
\* aside).
C2_DuplicateIdentityRejected ==
    \A w \in Workers :
        (/\ Returned(w)
         /\ OwnedBy(call[w].input.DepartmentID, call[w].managerId)
         /\ DuplicateAtStart(w)
         /\ err[w] # "ExecError")
        => /\ err[w] = "ErrConflictIdentityNumber"
           /\ call[w].inserted = 0

\* C3: every committed employee row references a department owned by the manager
\* whose create call wrote it, whichever strategy wrote it.
C3_RowsOwnedByActingManager ==
    /\ Len(origin) = Len(employees)
    /\ \A i \in 1..Len(employees) :
           OwnedBy(employees[i].departmentId, origin[i].managerId)

\* C3 witness: rows of both managers are stored, one written by each strategy,
\* the single-statement one committed while the other call's transaction was open
C3_Witness ==
    \E i, j \in 1..Len(employees) :
        /\ j < i
        /\ origin[i].via = "tx" /\ origin[j].via = "single"
        /\ origin[i].managerId # origin[j].managerId
        /\ \E w \in Workers : Returned(w) /\ call[w].via = "tx" /\ call[w].base = 0

\* C4, for the rows the claim singles out (availability check and Insert as
\* separate steps): no two committed rows written by that strategy carry the same
\* identity number in departments of the same manager.
C4_UniqueIdentityPerManager ==
    \A i, j \in 1..Len(employees) :
        (/\ i < j
         /\ origin[i].via = "tx" /\ origin[j].via = "tx"
         /\ employees[i].identityNumber = employees[j].identityNumber)
        => ~ \E m \in Manager :
                /\ OwnedBy(employees[i].departmentId, m)
                /\ OwnedBy(employees[j].departmentId, m)

-----------------------------------------------------------------------------
(* Properties of the listing path, checked under SpecList *)

\* EmployeeRepository.GetAll has assembled its statement
Built == built # NoQuery

\* positions of the fragments of the built statement that test column col
PredicatesOn(col) ==
    { i \in 1..Len(built.conditions) : built.conditions[i].col = col }

\* the optional filters: column, match operator, value in the criteria
Filters ==
    { [col |-> "LOWER(e.identityNumber)", op |-> "ILIKE $ || '%'",
       value |-> input.IdentityNumber, rank |-> 1],
      [col |-> "e.name", op |-> "ILIKE '%' || $ || '%'",
       value |-> input.Name, rank |-> 2],
      [col |-> "e.gender", op |-> "=", value |-> input.Gender, rank |-> 3],
      [col |-> "e.departmentId", op |-> "=", value |-> input.DepartmentID, rank |-> 4] }

Applied == { f \in Filters : f.value # EmptyStr }

\* C5: the built statement starts with the manager-scope predicate and holds, for
\* each non-empty field, exactly one AND-combined predicate of that field's kind
\* (identity number: prefix, name: substring, gender and department: equality),
\* and no predicate for an empty field.
C5_OnePredicatePerField ==
    Built =>
        /\ built.conditions[1] = Clause("WHERE", "m.managerId", "=", 1)
        /\ PredicatesOn("m.managerId") = {1}
        /\ \A f \in Filters :
             IF f.value # EmptyStr
             THEN /\ Cardinality(PredicatesOn(f.col)) = 1
                  /\ \A i \in PredicatesOn(f.col) :
                       /\ built.conditions[i].conj = "AND"
                       /\ built.conditions[i].op = f.op
             ELSE PredicatesOn(f.col) = {}
        /\ Cardinality({ i \in 1..Len(built.conditions) :
                           built.conditions[i].conj \in {"WHERE", "AND"} })
             = 1 + Cardinality(Applied)

\* C5 witness: a statement built for criteria with identity number and gender set
\* and name and department id empty
C5_Witness ==
    /\ pc = "query"
    /\ input.IdentityNumber # EmptyStr /\ input.Gender # EmptyStr
    /\ input.Name = EmptyStr /\ input.DepartmentID = EmptyStr
    /\ Len(built.conditions) = 5

\* C6: the number of positional arguments is the number of applied optional
\* predicates plus three, and is the highest placeholder index of the statement.
C6_ArgumentCount ==
    Built =>
        LET and == { i \in 1..Len(built.conditions) : built.conditions[i].conj = "AND" }
        IN  /\ Len(built.args) = Cardinality(and) + 3
            /\ \E i \in 1..Len(built.conditions) :
                   built.conditions[i].ph = Len(built.args)
            /\ \A i \in 1..Len(built.conditions) :
                   built.conditions[i].ph <= Len(built.args)

\* C6 witness: a statement with two optional predicates and five arguments
C6_Witness ==
    /\ pc = "query"
    /\ Cardinality(Applied) = 2
    /\ Len(built.args) = 5

\* the value a fragment's placeholder has to carry
OwnValue(c) ==
    CASE c.conj = "WHERE" -> input.ManagerID
      [] c.conj = "LIMIT" -> input.Limit
      [] c.conj = "OFFSET" -> input.Offset
      [] OTHER -> (CHOOSE f \in Filters : f.col = c.col).value

\* rank of a fragment in the order manager scope, identity number, name, gender,
\* department id, LIMIT, OFFSET
Rank(c) ==
    CASE c.conj = "WHERE" -> 0
      [] c.conj = "LIMIT" -> 5
      [] c.conj = "OFFSET" -> 6
      [] OTHER -> (CHOOSE f \in Filters : f.col = c.col).rank

\* C7: the i-th fragment carries placeholder $i, its argument is the value of the
\* fragment's own field, the fragments follow the append order, and LIMIT then
\* OFFSET come last, bound to input.Limit and input.Offset.
C7_PlaceholdersBindOwnValues ==
    Built =>
        LET c == built.conditions
            n == Len(c)
        IN  /\ n = Len(built.args)
            /\ \A i \in 1..n : c[i].ph = i
            /\ \A i \in 1..n : built.args[c[i].ph] = OwnValue(c[i])
            /\ \A i, j \in 1..n : i < j => Rank(c[i]) < Rank(c[j])
            /\ c[n - 1].conj = "LIMIT" /\ c[n].conj = "OFFSET"

\* C7 witness: all four filters set, limit and offset different
C7_Witness ==
    /\ pc = "query"
    /\ Cardinality(Applied) = 4
    /\ input.Limit # input.Offset

\* the employees of manager m's departments, in storage order
Scoped(emps, m) ==
    LET Mine(e) == OwnedBy(e.departmentId, m)
    IN  SelectSeq(emps, Mine)

\* rows off+1 .. off+lim of a sequence
Window(rows, lim, off) == SubSeq(rows, off + 1, Min(Len(rows), off + lim))

\* C8: every record a listing returns belongs to a department owned by the acting
\* manager, and with no optional filter the listing is exactly the manager's
\* employees within the limit/offset window.
C8_ListingScopedToManager ==
    result.err = "nil" =>
        /\ \A i \in 1..Len(result.employees) :
               OwnedBy(result.employees[i].DepartmentID, input.ManagerID)
        /\ Applied = {} =>
               LET w == Window(Scoped(employees, input.ManagerID), input.Limit, input.Offset)
               IN  result.employees = [i \in 1..Len(w) |-> Scan(w[i])]

\* C8 witness: an unfiltered listing returned a row of the acting manager while
\* the storage also holds a row of a department the manager does not own
C8_Witness ==
    /\ result.err = "nil"
    /\ Applied = {}
    /\ Len(result.employees) > 0
    /\ \E i \in 1..Len(employees) : ~OwnedBy(employees[i].departmentId, input.ManagerID)

\* C9: a storage failure of a listing request ends that request with an error
\* and leaves the process running.
C9_NoFailureIsFatal ==
    /\ alive
    /\ result.err = "ScanError" => resp # "200"

\* the value the claim gives limit / offset: the parsed parameter when it is a
\* non-negative integer, the default otherwise
Expected(param, default) ==
    IF Atoi(param).ok /\ Atoi(param).n >= 0 THEN Atoi(param).n ELSE default

\* C10: when the handler invokes the listing service, input.Limit and
\* input.Offset are the parsed non-negative query values or the defaults.
C10_PaginationDefaulted ==
    pc = "service" =>
        /\ input.Limit = Expected(req.limit, DefaultLimit)
        /\ input.Offset = Expected(req.offset, DefaultOffset)

====
